---- MODULE Spec2Model ----
(***************************************************************************)
(* Deadlock-proof mutexes (src/src/lib.rs) and the demo walks that use     *)
(* them (src/src/main.rs): permission tokens, the thread-local issuer, the *)
(* guarded mutex with its two acquire operations, and the two guard kinds  *)
(* with their release operations.                                          *)
(***************************************************************************)
EXTENDS Integers, FiniteSets, Sequences, Bags, TLC

\* ---------------------------------------------------------------- bounds
\* Number of threads that use the shared mutexes.
NumThreads == 2

\* Largest number of free tokens a thread keeps in local variables at once.
MaxHand == 2

\* Largest number of calls of OuterMutexPermission::get one thread makes.
MaxGets == 2

Threads == 1..NumThreads

\* ---------------------------------------------------------------- tokens
\* OuterMutexPermission: a unit value.
Outer == <<"Outer">>

\* NestedMutexPermission<P, I>: a unit value whose type names P and I.
Nested(P, I) == <<"Nested", P, I>>

\* SequentialMutexPermission<P, I>::new(permission): wraps the value of P.
SequentialNew(permission, I) == <<"Seq", permission, I>>

\* A to_earlier that returns the sequential token itself.
to_earlier_identity(self) == self

\* SequentialMutexPermission::to_earlier: self.1
to_earlier(self) == self[2]

IsSequential(tok) == tok[1] = "Seq"

\* The absence of a token (a raw MutexGuard stores none).
NoToken == <<>>

\* ---------------------------------------------------------------- mutexes
\* The guarded mutexes the repository declares: the two of
\* demo_exclusive_mutexes, the nested chain of demo_nested_mutexes, the
\* sequential chain of demo_sequential_mutexes and the three layers of
\* NetworkStack.
Mutexes ==
  {"excl1", "excl2",
   "mutex1", "mutex2", "mutex3",
   "data1", "data2", "data3",
   "ip_layer", "device_layer", "transport_layer"}

\* The sets of mutexes a program creates and shares between its threads:
\* two mutexes that take the outer token, the nested chain, and the
\* sequential chain of NetworkStack::new.
Programs ==
  { {"excl1", "excl2"},
    {"mutex1", "mutex2", "mutex3"},
    {"ip_layer", "device_layer", "transport_layer"} }

\* The type parameter I of each DeadlockProofMutex<T, P, I>: a unit struct,
\* or the closure type of one expansion of unique_type!().
Identity(m) ==
  CASE m = "excl1"           -> "Excl1"
    [] m = "excl2"           -> "Excl2"
    [] m = "mutex1"          -> "Nested1"
    [] m = "mutex2"          -> "Nested2"
    [] m = "mutex3"          -> "Nested3"
    [] m = "data1"           -> "Data1"
    [] m = "data2"           -> "Data2"
    [] m = "data3"           -> "Data3"
    [] m = "ip_layer"        -> "IpLock"
    [] m = "device_layer"    -> "DeviceLock"
    [] m = "transport_layer" -> "TransportLock"

\* The type parameter P of each DeadlockProofMutex<T, P, I>: the token type
\* its lock and lock_for_nested take by value.
Required(m) ==
  CASE m = "excl1"           -> Outer
    [] m = "excl2"           -> Outer
    [] m = "mutex1"          -> Outer
    [] m = "mutex2"          -> Nested(Outer, "Nested1")
    [] m = "mutex3"          -> Nested(Nested(Outer, "Nested1"), "Nested2")
    [] m = "data1"           -> Outer
    [] m = "data2"           -> SequentialNew(Outer, "Data1")
    [] m = "data3"           ->
         SequentialNew(SequentialNew(Outer, "Data1"), "Data2")
    [] m = "ip_layer"        -> Outer
    [] m = "device_layer"    -> SequentialNew(Outer, "IpLock")
    [] m = "transport_layer" ->
         SequentialNew(SequentialNew(Outer, "IpLock"), "DeviceLock")

\* A token type with the mutex identities erased.
RECURSIVE Erase(_)
Erase(tok) == IF Len(tok) < 3 THEN tok ELSE <<tok[1], Erase(tok[2])>>

\* A check of the shape of the token only, not of the identities in it.
AcceptsIgnoringIdentity(m, tok) == Erase(tok) = Erase(Required(m))

\* Type checking of `m.lock(permission)`: the argument must have type P.
Accepts(m, tok) == tok = Required(m)

\* The token minted by lock_for_nested on m: NestedMutexPermission<P, I>.
NestedOf(m) == Nested(Required(m), Identity(m))

\* ---------------------------------------------------------------- state
VARIABLES
  created,   \* the mutexes the program created (DeadlockProofMutex::new)
  value,     \* the protected value of each mutex of type i32
  issuer,    \* MUTEX_PERMISSION_TOKEN of each thread: TRUE = Some(token)
  getCalls,  \* how many times each thread has called OuterMutexPermission::get
  hand,      \* the free tokens each thread owns (a bag)
  guards,    \* the guards each thread owns
  waiting,   \* the lock call each thread is inside, if any
  locked,    \* the inner std Mutex of each guarded mutex is locked
  poisoned,  \* the inner std Mutex of each guarded mutex is poisoned
  status,    \* "running", "panicked" or "exited"
  last,      \* the call that returned in the latest step, when it was a
             \* release or to_earlier (with the token returned) or an acquire
             \* that returned the poisoning error; NoLast after any other step
  pc         \* position of a thread in a demo walk (0 outside the walks)

vars ==
  <<created, value, issuer, getCalls, hand, guards, waiting, locked, poisoned,
    status, last, pc>>

NoCall == [m |-> "-", kind |-> "-", tok |-> NoToken]

Call(t, op, m, ret) == [t |-> t, op |-> op, m |-> m, ret |-> ret]

NoLast == Call(0, "-", "-", NoToken)

\* DeadlockProofMutexGuard, DeadlockProofNestedMutexGuard, and the raw
\* MutexGuard inside a PoisonError.
Guard(m, kind, tok) == [m |-> m, kind |-> kind, tok |-> tok]

HandSize(t) == BagCardinality(hand[t])

Has(t, tok) == BagIn(tok, hand[t])

Give(t, tok) == [hand EXCEPT ![t] = @ (+) SetToBag({tok})]

Take(t, tok) == [hand EXCEPT ![t] = @ (-) SetToBag({tok})]

Swap(t, old, new) ==
  [hand EXCEPT ![t] = (@ (-) SetToBag({old})) (+) SetToBag({new})]

Active(t) == status[t] = "running" /\ waiting[t] = NoCall

Holds(t, m) == \E g \in guards[t] : g.m = m

\* The state after the mutexes are created and the threads are spawned.
Start ==
  /\ value = [m \in Mutexes |-> 0]
  /\ issuer = [t \in Threads |-> TRUE]
  /\ getCalls = [t \in Threads |-> 0]
  /\ hand = [t \in Threads |-> EmptyBag]
  /\ guards = [t \in Threads |-> {}]
  /\ waiting = [t \in Threads |-> NoCall]
  /\ locked = [m \in Mutexes |-> FALSE]
  /\ poisoned = [m \in Mutexes |-> FALSE]
  /\ status = [t \in Threads |-> "running"]
  /\ last = NoLast
  /\ pc = [t \in Threads |-> 0]

Init == created \in Programs /\ Start

\* ---------------------------------------------------------------- panics
\* A panic unwinds the thread: every guard it owns is dropped while the
\* thread is panicking, which poisons and unlocks the inner std Mutex; its
\* tokens are dropped with its stack.
Unwind(t) ==
  /\ status' = [status EXCEPT ![t] = "panicked"]
  /\ poisoned' = [m \in Mutexes |-> poisoned[m] \/ Holds(t, m)]
  /\ locked' = [m \in Mutexes |-> locked[m] /\ ~Holds(t, m)]
  /\ guards' = [guards EXCEPT ![t] = {}]
  /\ hand' = [hand EXCEPT ![t] = EmptyBag]

\* ---------------------------------------------------------------- issuer
\* A get that reads the cell without taking the token out of it.
get_without_take(t) ==
  /\ Active(t)
  /\ getCalls[t] < MaxGets
  /\ issuer[t] => HandSize(t) < MaxHand
  /\ getCalls' = [getCalls EXCEPT ![t] = @ + 1]
  /\ issuer' = issuer
  /\ IF issuer[t]
       THEN /\ hand' = Give(t, Outer)
            /\ UNCHANGED <<guards, locked, poisoned, status>>
       ELSE Unwind(t)
  /\ last' = NoLast
  /\ UNCHANGED <<value, waiting>>

\* OuterMutexPermission::get: take() the thread-local cell and expect Some.
get(t) ==
  /\ Active(t)
  /\ getCalls[t] < MaxGets
  /\ issuer[t] => HandSize(t) < MaxHand
  /\ getCalls' = [getCalls EXCEPT ![t] = @ + 1]
  /\ issuer' = [issuer EXCEPT ![t] = FALSE]
  /\ IF issuer[t]
       THEN /\ hand' = Give(t, Outer)
            /\ UNCHANGED <<guards, locked, poisoned, status>>
       ELSE Unwind(t)
  /\ last' = NoLast
  /\ UNCHANGED <<value, waiting>>

\* ---------------------------------------------------------------- acquire
\* An acquire that asks for no permission value: the caller enters with a
\* token of the required type made up on the spot.
EnterWithoutPermission(t, m, kind) ==
  /\ Active(t)
  /\ waiting' = [waiting EXCEPT ![t] = [m |-> m, kind |-> kind, tok |-> Required(m)]]
  /\ last' = NoLast
  /\ UNCHANGED <<value, issuer, getCalls, hand, guards, locked, poisoned, status>>

\* The call of lock or lock_for_nested: the permission is moved into the
\* call, which then waits inside the inner Mutex::lock.
Enter(t, m, kind) ==
  /\ Active(t)
  /\ \E tok \in BagToSet(hand[t]) :
       /\ Accepts(m, tok)
       /\ waiting' = [waiting EXCEPT ![t] = [m |-> m, kind |-> kind, tok |-> tok]]
       /\ hand' = Take(t, tok)
  /\ last' = NoLast
  /\ UNCHANGED <<value, issuer, getCalls, guards, locked, poisoned, status>>

\* DeadlockProofMutex::lock(permission)
lock(t, m) == Enter(t, m, "lock")

\* DeadlockProofMutex::lock_for_nested(permission)
lock_for_nested(t, m) == Enter(t, m, "lock_for_nested")

\* An inner lock that never makes the caller wait.
InnerFreeAlways(m) == TRUE

\* The inner lock is free: self.0.lock() takes it.
InnerFree(m) == ~locked[m]

\* An acquire that recovers the guard from the poisoning error and returns
\* it as a success.
lock_return_ignoring_poison(t) ==
  LET m == waiting[t].m
      kind == waiting[t].kind
      tok == waiting[t].tok IN
  /\ status[t] = "running"
  /\ waiting[t] # NoCall
  /\ ~locked[m]
  /\ locked' = [locked EXCEPT ![m] = TRUE]
  /\ waiting' = [waiting EXCEPT ![t] = NoCall]
  /\ IF kind = "lock"
       THEN /\ guards' = [guards EXCEPT ![t] = @ \cup {Guard(m, "plain", tok)}]
            /\ UNCHANGED hand
       ELSE /\ guards' = [guards EXCEPT ![t] = @ \cup {Guard(m, "nested", tok)}]
            /\ hand' = Give(t, NestedOf(m))
  /\ last' = NoLast
  /\ UNCHANGED <<value, issuer, getCalls, poisoned, status>>

\* self.0.lock().map(|guard| ...): the inner lock is taken when it is free.
\* Ok(guard) is mapped to the deadlock-proof guard that stores the
\* permission (with a fresh nested token for lock_for_nested); Err carries
\* the raw guard and the closure, with the permission it captured, is
\* dropped.
lock_return(t) ==
  LET m == waiting[t].m
      kind == waiting[t].kind
      tok == waiting[t].tok IN
  /\ status[t] = "running"
  /\ waiting[t] # NoCall
  /\ InnerFree(m)
  /\ locked' = [locked EXCEPT ![m] = TRUE]
  /\ waiting' = [waiting EXCEPT ![t] = NoCall]
  /\ IF poisoned[m]
       THEN /\ guards' = [guards EXCEPT ![t] = @ \cup {Guard(m, "raw", NoToken)}]
            /\ last' = Call(t, "poison_error", m, NoToken)
            /\ UNCHANGED hand
       ELSE IF kind = "lock"
         THEN /\ guards' = [guards EXCEPT ![t] = @ \cup {Guard(m, "plain", tok)}]
              /\ last' = NoLast
              /\ UNCHANGED hand
         ELSE /\ guards' = [guards EXCEPT ![t] = @ \cup {Guard(m, "nested", tok)}]
              /\ last' = NoLast
              /\ hand' = Give(t, NestedOf(m))
  /\ UNCHANGED <<value, issuer, getCalls, poisoned, status>>

\* ---------------------------------------------------------------- release
\* A release that forgets the MutexGuard instead of dropping it.
ReleaseKeepingLock(t, g) ==
  /\ guards' = [guards EXCEPT ![t] = @ \ {g}]
  /\ UNCHANGED <<value, issuer, getCalls, waiting, locked, poisoned, status>>

\* Dropping the MutexGuard inside a guard unlocks the inner Mutex.
Release(t, g) ==
  /\ guards' = [guards EXCEPT ![t] = @ \ {g}]
  /\ locked' = [locked EXCEPT ![g.m] = FALSE]
  /\ UNCHANGED <<value, issuer, getCalls, waiting, poisoned, status>>

\* An unlock that hands out the token of a guard and leaves the guard alive.
unlock_keeping_guard(t, m) ==
  /\ Active(t)
  /\ HandSize(t) < MaxHand
  /\ \E g \in guards[t] :
       /\ g.m = m /\ g.kind = "plain"
       /\ hand' = Give(t, g.tok)
       /\ last' = Call(t, "unlock", m, g.tok)
  /\ UNCHANGED <<value, issuer, getCalls, guards, waiting, locked, poisoned, status>>

\* DeadlockProofMutexGuard::unlock: self.1
unlock(t, m) ==
  /\ Active(t)
  /\ HandSize(t) < MaxHand
  /\ \E g \in guards[t] :
       /\ g.m = m /\ g.kind = "plain"
       /\ Release(t, g)
       /\ hand' = Give(t, g.tok)
       /\ last' = Call(t, "unlock", m, g.tok)

\* DeadlockProofMutexGuard::unlock_for_sequential
unlock_for_sequential(t, m) ==
  /\ Active(t)
  /\ HandSize(t) < MaxHand
  /\ \E g \in guards[t] :
       /\ g.m = m /\ g.kind = "plain"
       /\ Release(t, g)
       /\ hand' = Give(t, SequentialNew(g.tok, Identity(m)))
       /\ last' = Call(t, "unlock_for_sequential", m,
                       SequentialNew(g.tok, Identity(m)))

\* DeadlockProofNestedMutexGuard::unlock(_token): the nested token of this
\* mutex is taken by value, self.1 is returned.
nested_unlock(t, m) ==
  /\ Active(t)
  /\ Has(t, NestedOf(m))
  /\ \E g \in guards[t] :
       /\ g.m = m /\ g.kind = "nested"
       /\ Release(t, g)
       /\ hand' = Swap(t, NestedOf(m), g.tok)
       /\ last' = Call(t, "nested_unlock", m, g.tok)

\* DeadlockProofNestedMutexGuard::unlock_for_sequential: takes no token.
nested_unlock_for_sequential(t, m) ==
  /\ Active(t)
  /\ HandSize(t) < MaxHand
  /\ \E g \in guards[t] :
       /\ g.m = m /\ g.kind = "nested"
       /\ Release(t, g)
       /\ hand' = Give(t, SequentialNew(g.tok, Identity(m)))
       /\ last' = Call(t, "nested_unlock_for_sequential", m,
                 SequentialNew(g.tok, Identity(m)))

\* A to_earlier that hands out the wrapped token and leaves the sequential
\* token usable.
ToEarlierCopying(t, tok) ==
  /\ Active(t)
  /\ Has(t, tok)
  /\ IsSequential(tok)
  /\ HandSize(t) < MaxHand
  /\ hand' = Give(t, to_earlier(tok))
  /\ last' = Call(t, "to_earlier", "-", to_earlier(tok))
  /\ UNCHANGED <<value, issuer, getCalls, guards, waiting, locked, poisoned, status>>

\* SequentialMutexPermission::to_earlier applied to a free sequential token.
ToEarlier(t, tok) ==
  /\ Active(t)
  /\ Has(t, tok)
  /\ IsSequential(tok)
  /\ hand' = Swap(t, tok, to_earlier(tok))
  /\ last' = Call(t, "to_earlier", "-", to_earlier(tok))
  /\ UNCHANGED <<value, issuer, getCalls, guards, waiting, locked, poisoned, status>>

\* ---------------------------------------------------------------- access
\* The mutexes whose protected value is an i32; the Strings, Vecs and
\* structs the other mutexes protect are not modelled.
IntMutexes == {"excl1", "excl2"}

\* The values the demo writes to an i32.
Values == {0, 42, 84}

\* DerefMut on a guard: `*guard = v`. Only a guard gives access.
deref_mut(t, m, v) ==
  /\ Active(t)
  /\ Holds(t, m)
  /\ m \in IntMutexes
  /\ value' = [value EXCEPT ![m] = v]
  /\ last' = NoLast
  /\ UNCHANGED <<issuer, getCalls, hand, guards, waiting, locked, poisoned, status>>

\* ---------------------------------------------------------------- drops
\* A guard (or the PoisonError holding a raw guard) goes out of scope
\* without a release call: the lock is released, the stored token is lost.
DropGuard(t, g) ==
  /\ Active(t)
  /\ g \in guards[t]
  /\ Release(t, g)
  /\ last' = NoLast
  /\ UNCHANGED hand

\* A token goes out of scope unused.
DropToken(t, tok) ==
  /\ Active(t)
  /\ Has(t, tok)
  /\ hand' = Take(t, tok)
  /\ last' = NoLast
  /\ UNCHANGED <<value, issuer, getCalls, guards, waiting, locked, poisoned, status>>

\* A return that drops the guards as a panic does, poisoning their mutexes.
ExitPoisoning(t) ==
  /\ Active(t)
  /\ status' = [status EXCEPT ![t] = "exited"]
  /\ poisoned' = [m \in Mutexes |-> poisoned[m] \/ Holds(t, m)]
  /\ locked' = [m \in Mutexes |-> locked[m] /\ ~Holds(t, m)]
  /\ guards' = [guards EXCEPT ![t] = {}]
  /\ hand' = [hand EXCEPT ![t] = EmptyBag]
  /\ last' = NoLast
  /\ UNCHANGED <<value, issuer, getCalls, waiting>>

\* The thread's closure returns: what it still owns is dropped, without
\* poisoning.
Exit(t) ==
  /\ Active(t)
  /\ status' = [status EXCEPT ![t] = "exited"]
  /\ locked' = [m \in Mutexes |-> locked[m] /\ ~Holds(t, m)]
  /\ guards' = [guards EXCEPT ![t] = {}]
  /\ hand' = [hand EXCEPT ![t] = EmptyBag]
  /\ last' = NoLast
  /\ UNCHANGED <<value, issuer, getCalls, waiting, poisoned>>

\* ---------------------------------------------------------------- tokens in existence
Tokens ==
  {Outer} \cup {NestedOf(m) : m \in Mutexes}
          \cup {SequentialNew(Required(m), Identity(m)) : m \in Mutexes}

AllGuards ==
  {Guard(m, k, Required(m)) : m \in Mutexes, k \in {"plain", "nested"}}
    \cup {Guard(m, "raw", NoToken) : m \in Mutexes}

\* ---------------------------------------------------------------- any program
\* Threads that perform any sequence of type-correct API operations.
Next ==
  \E t \in Threads :
    \/ get(t) /\ UNCHANGED <<created, pc>>
    \/ \E m \in created : lock(t, m) /\ UNCHANGED <<created, pc>>
    \/ \E m \in created : lock_for_nested(t, m) /\ UNCHANGED <<created, pc>>
    \/ lock_return(t) /\ UNCHANGED <<created, pc>>
    \/ \E m \in created : unlock(t, m) /\ UNCHANGED <<created, pc>>
    \/ \E m \in created : unlock_for_sequential(t, m) /\ UNCHANGED <<created, pc>>
    \/ \E m \in created : nested_unlock(t, m) /\ UNCHANGED <<created, pc>>
    \/ \E m \in created : nested_unlock_for_sequential(t, m) /\ UNCHANGED <<created, pc>>
    \/ \E tok \in Tokens : ToEarlier(t, tok) /\ UNCHANGED <<created, pc>>
    \/ \E m \in created, v \in Values : deref_mut(t, m, v) /\ UNCHANGED <<created, pc>>
    \/ \E g \in AllGuards : DropGuard(t, g) /\ UNCHANGED <<created, pc>>
    \/ \E tok \in Tokens : DropToken(t, tok) /\ UNCHANGED <<created, pc>>
    \/ Exit(t) /\ UNCHANGED <<created, pc>>

Spec == Init /\ [][Next]_vars

\* Threads that never call lock_for_nested: any sequence of get, lock,
\* unlock, unlock_for_sequential, to_earlier, writes and drops.
NextPlain ==
  \E t \in Threads :
    \/ get(t) /\ UNCHANGED <<created, pc>>
    \/ \E m \in created : lock(t, m) /\ UNCHANGED <<created, pc>>
    \/ lock_return(t) /\ UNCHANGED <<created, pc>>
    \/ \E m \in created : unlock(t, m) /\ UNCHANGED <<created, pc>>
    \/ \E m \in created : unlock_for_sequential(t, m) /\ UNCHANGED <<created, pc>>
    \/ \E tok \in Tokens : ToEarlier(t, tok) /\ UNCHANGED <<created, pc>>
    \/ \E m \in created, v \in Values : deref_mut(t, m, v) /\ UNCHANGED <<created, pc>>
    \/ \E g \in AllGuards : DropGuard(t, g) /\ UNCHANGED <<created, pc>>
    \/ \E tok \in Tokens : DropToken(t, tok) /\ UNCHANGED <<created, pc>>
    \/ Exit(t) /\ UNCHANGED <<created, pc>>

SpecPlain == Init /\ [][NextPlain]_vars

TypeOK ==
  /\ created \in Programs
  /\ value \in [Mutexes -> Values]
  /\ issuer \in [Threads -> BOOLEAN]
  /\ getCalls \in [Threads -> 0..MaxGets]
  /\ \A t \in Threads : BagToSet(hand[t]) \subseteq Tokens /\ HandSize(t) <= MaxHand
  /\ \A t \in Threads : guards[t] \subseteq AllGuards
  /\ locked \in [Mutexes -> BOOLEAN]
  /\ poisoned \in [Mutexes -> BOOLEAN]
  /\ status \in [Threads -> {"running", "panicked", "exited"}]

\* ---------------------------------------------------------------- demo walks
Ins(op, m) == [op |-> op, m |-> m]

\* The thread of demo_nested_mutexes: the three-level nested chain, unlocked
\* in reverse order.
NestedWalk ==
  << Ins("get", "-"),
     Ins("lock_for_nested", "mutex1"),
     Ins("lock_for_nested", "mutex2"),
     Ins("lock", "mutex3"),
     Ins("unlock", "mutex3"),
     Ins("nested_unlock", "mutex2"),
     Ins("nested_unlock", "mutex1"),
     Ins("exit", "-") >>

\* The thread of demo_sequential_mutexes: the three-step sequential chain;
\* the last guard is dropped when the closure returns.
SequentialWalk ==
  << Ins("get", "-"),
     Ins("lock", "data1"),
     Ins("unlock_for_sequential", "data1"),
     Ins("lock", "data2"),
     Ins("unlock_for_sequential", "data2"),
     Ins("lock", "data3"),
     Ins("exit", "-") >>

WalkChains == { {"mutex1", "mutex2", "mutex3"}, {"data1", "data2", "data3"} }

\* The walk every thread of the program follows.
Walk == IF "mutex1" \in created THEN NestedWalk ELSE SequentialWalk

Done(t) == pc[t] = Len(Walk)

\* The instruction thread t is at.
At(t) == IF Done(t) THEN Ins("done", "-") ELSE Walk[pc[t] + 1]

Advance(t) == pc' = [pc EXCEPT ![t] = @ + 1] /\ UNCHANGED created

\* `let permission = OuterMutexPermission::get();`
WalkGet(t) == At(t).op = "get" /\ get(t) /\ Advance(t)

\* The call of `.lock(..)` or `.lock_for_nested(..)`.
WalkCall(t) ==
  /\ At(t).op \in {"lock", "lock_for_nested"}
  /\ Enter(t, At(t).m, At(t).op)
  /\ UNCHANGED <<created, pc>>

\* The return of the call and `.unwrap()`, which panics on the poisoning
\* error: the raw guard in the error is dropped with everything else.
WalkReturn(t) ==
  /\ status[t] = "running"
  /\ waiting[t] # NoCall
  /\ IF poisoned[waiting[t].m]
       THEN /\ InnerFree(waiting[t].m)
            /\ Unwind(t)
            /\ waiting' = [waiting EXCEPT ![t] = NoCall]
            /\ last' = NoLast
            /\ UNCHANGED <<created, value, issuer, getCalls, pc>>
       ELSE lock_return(t) /\ Advance(t)

\* `guard3.unlock()`
WalkUnlock(t) == At(t).op = "unlock" /\ unlock(t, At(t).m) /\ Advance(t)

\* `guard1.unlock_for_sequential()`
WalkUnlockForSequential(t) ==
  /\ At(t).op = "unlock_for_sequential"
  /\ unlock_for_sequential(t, At(t).m)
  /\ Advance(t)

\* `guard2.unlock(perm2)`
WalkNestedUnlock(t) ==
  /\ At(t).op = "nested_unlock"
  /\ nested_unlock(t, At(t).m)
  /\ Advance(t)

\* The closure returns.
WalkExit(t) == At(t).op = "exit" /\ Exit(t) /\ Advance(t)

WalkStep(t) ==
  \/ WalkGet(t)
  \/ WalkCall(t)
  \/ WalkReturn(t)
  \/ WalkUnlock(t)
  \/ WalkUnlockForSequential(t)
  \/ WalkNestedUnlock(t)
  \/ WalkExit(t)

InitWalk == created \in WalkChains /\ Start

NextWalk == \E t \in Threads : WalkStep(t)

\* Every thread is scheduled, and an acquire on a free lock returns.
SpecWalk ==
  InitWalk /\ [][NextWalk]_vars /\ \A t \in Threads : WF_vars(WalkStep(t))

\* ---------------------------------------------------------------- the demo program
\* The thread that runs main() and the thread a demo spawns.
Main == 1
Worker == 2

ExclusiveMutexes == {"excl1", "excl2"}
NestedMutexes == {"mutex1", "mutex2", "mutex3"}
SequentialMutexes == {"data1", "data2", "data3"}
NetworkMutexes == {"ip_layer", "device_layer", "transport_layer"}

\* The menu choices "1" to "4", each named by the mutexes its demo creates.
Demos == {ExclusiveMutexes, NestedMutexes, SequentialMutexes, NetworkMutexes}

\* `*guard = v;`
Write(m, v) == [op |-> "write", m |-> m, v |-> v]

\* The closure demo_exclusive_mutexes spawns.
ExclusiveThread ==
  << Ins("get", "-"),
     Ins("lock", "excl1"),
     Write("excl1", 42),
     Ins("unlock", "excl1"),
     Ins("lock", "excl2"),
     Write("excl2", 84),
     Ins("exit", "-") >>

\* demo_exclusive_mutexes on the main thread, from the join on.
ExclusiveMain ==
  << Ins("join", "-"),
     Ins("get", "-"),
     Ins("lock", "excl1"),
     Ins("read", "excl1"),
     Ins("unlock", "excl1"),
     Ins("lock", "excl2"),
     Ins("read", "excl2"),
     Ins("return", "-") >>

\* demo_nested_mutexes on the main thread, from the join on.
NestedMain ==
  << Ins("join", "-"),
     Ins("get", "-"),
     Ins("lock_for_nested", "mutex1"),
     Ins("lock_for_nested", "mutex2"),
     Ins("lock", "mutex3"),
     Ins("return", "-") >>

\* demo_sequential_mutexes on the main thread, from the join on.
SequentialMain ==
  << Ins("join", "-"),
     Ins("get", "-"),
     Ins("lock", "data1"),
     Ins("unlock_for_sequential", "data1"),
     Ins("lock", "data2"),
     Ins("unlock_for_sequential", "data2"),
     Ins("lock", "data3"),
     Ins("return", "-") >>

\* The closure demo_network_stack spawns.
NetworkThread ==
  << Ins("get", "-"),
     Ins("lock", "ip_layer"),
     Ins("unlock_for_sequential", "ip_layer"),
     Ins("lock", "device_layer"),
     Ins("unlock_for_sequential", "device_layer"),
     Ins("lock", "transport_layer"),
     Ins("exit", "-") >>

\* demo_network_stack on the main thread, from the join on.
NetworkMain ==
  << Ins("join", "-"),
     Ins("get", "-"),
     Ins("lock", "ip_layer"),
     Ins("unlock_for_sequential", "ip_layer"),
     Ins("lock", "device_layer"),
     Ins("unlock_for_sequential", "device_layer"),
     Ins("lock", "transport_layer"),
     Ins("return", "-") >>

\* The code thread t runs in the demo that is selected; none at the menu.
DemoCode(t) ==
  IF t = Main
    THEN CASE created = ExclusiveMutexes  -> ExclusiveMain
           [] created = NestedMutexes     -> NestedMain
           [] created = SequentialMutexes -> SequentialMain
           [] created = NetworkMutexes    -> NetworkMain
           [] OTHER                       -> << >>
  ELSE IF t = Worker
    THEN CASE created = ExclusiveMutexes  -> ExclusiveThread
           [] created = NestedMutexes     -> NestedWalk
           [] created = SequentialMutexes -> SequentialWalk
           [] created = NetworkMutexes    -> NetworkThread
           [] OTHER                       -> << >>
  ELSE << >>

\* The instruction thread t is at.
DemoAt(t) ==
  IF pc[t] >= Len(DemoCode(t)) THEN Ins("done", "-") ELSE DemoCode(t)[pc[t] + 1]

\* main(): the menu loop reads "1" to "4" and calls the demo, which creates
\* its mutexes and spawns its thread; the new thread has its own issuer.
DemoSelect(c) ==
  /\ created = {}
  /\ Active(Main)
  /\ created' = c
  /\ value' = [m \in Mutexes |-> 0]
  /\ locked' = [m \in Mutexes |-> FALSE]
  /\ poisoned' = [m \in Mutexes |-> FALSE]
  /\ issuer' = [issuer EXCEPT ![Worker] = TRUE]
  /\ getCalls' = [getCalls EXCEPT ![Worker] = 0]
  /\ status' = [status EXCEPT ![Worker] = "running"]
  /\ pc' = [t \in Threads |-> 0]
  /\ last' = NoLast
  /\ UNCHANGED <<hand, guards, waiting>>

\* main(): the menu loop reads "5" and breaks.
DemoQuit ==
  /\ created = {}
  /\ Exit(Main)
  /\ UNCHANGED <<created, pc>>

\* `handle.join().unwrap();`
DemoJoin ==
  /\ DemoAt(Main).op = "join"
  /\ Active(Main)
  /\ status[Worker] # "running"
  /\ IF status[Worker] = "panicked"
       THEN /\ Unwind(Main)
            /\ UNCHANGED <<created, pc>>
       ELSE /\ Advance(Main)
            /\ UNCHANGED <<hand, guards, locked, poisoned, status>>
  /\ last' = NoLast
  /\ UNCHANGED <<value, issuer, getCalls, waiting>>

\* The demo function returns to the menu loop: its guards, tokens and
\* mutexes are dropped.
DemoFinish ==
  /\ DemoAt(Main).op = "return"
  /\ Active(Main)
  /\ created' = {}
  /\ pc' = [t \in Threads |-> 0]
  /\ locked' = [m \in Mutexes |-> locked[m] /\ ~Holds(Main, m)]
  /\ guards' = [guards EXCEPT ![Main] = {}]
  /\ hand' = [hand EXCEPT ![Main] = EmptyBag]
  /\ last' = NoLast
  /\ UNCHANGED <<value, issuer, getCalls, waiting, poisoned, status>>

\* `let permission = OuterMutexPermission::get();`
DemoGet(t) == DemoAt(t).op = "get" /\ get(t) /\ Advance(t)

\* The call of `.lock(..)` or `.lock_for_nested(..)`.
DemoCall(t) ==
  /\ DemoAt(t).op \in {"lock", "lock_for_nested"}
  /\ Enter(t, DemoAt(t).m, DemoAt(t).op)
  /\ UNCHANGED <<created, pc>>

\* The return of the call and `.unwrap()`, which panics on the poisoning
\* error.
DemoReturn(t) ==
  /\ status[t] = "running"
  /\ waiting[t] # NoCall
  /\ IF poisoned[waiting[t].m]
       THEN /\ InnerFree(waiting[t].m)
            /\ Unwind(t)
            /\ waiting' = [waiting EXCEPT ![t] = NoCall]
            /\ last' = NoLast
            /\ UNCHANGED <<created, value, issuer, getCalls, pc>>
       ELSE lock_return(t) /\ Advance(t)

\* `*guard1 = 42;`
DemoWrite(t) ==
  /\ DemoAt(t).op = "write"
  /\ deref_mut(t, DemoAt(t).m, DemoAt(t).v)
  /\ Advance(t)

\* `println!("Main: mutex1 = {}", *guard1);`: Deref on a guard.
DemoRead(t) ==
  /\ DemoAt(t).op = "read"
  /\ Active(t)
  /\ Holds(t, DemoAt(t).m)
  /\ Advance(t)
  /\ last' = NoLast
  /\ UNCHANGED <<value, issuer, getCalls, hand, guards, waiting, locked,
                 poisoned, status>>

\* `guard1.unlock()`
DemoUnlock(t) == DemoAt(t).op = "unlock" /\ unlock(t, DemoAt(t).m) /\ Advance(t)

\* `guard1.unlock_for_sequential()`
DemoUnlockForSequential(t) ==
  /\ DemoAt(t).op = "unlock_for_sequential"
  /\ unlock_for_sequential(t, DemoAt(t).m)
  /\ Advance(t)

\* `guard2.unlock(perm2)`
DemoNestedUnlock(t) ==
  /\ DemoAt(t).op = "nested_unlock"
  /\ nested_unlock(t, DemoAt(t).m)
  /\ Advance(t)

\* The spawned closure returns.
DemoExit(t) == DemoAt(t).op = "exit" /\ Exit(t) /\ Advance(t)

DemoStep(t) ==
  \/ DemoGet(t)
  \/ DemoCall(t)
  \/ DemoReturn(t)
  \/ DemoWrite(t)
  \/ DemoRead(t)
  \/ DemoUnlock(t)
  \/ DemoUnlockForSequential(t)
  \/ DemoNestedUnlock(t)
  \/ DemoExit(t)

\* The process starts at the menu.
InitDemo == created = {} /\ Start

NextDemo ==
  \/ \E c \in Demos : DemoSelect(c)
  \/ DemoQuit
  \/ DemoJoin
  \/ DemoFinish
  \/ \E t \in {Main, Worker} : DemoStep(t)

\* The interactive program: any sequence of menu selections.
SpecDemo == InitDemo /\ [][NextDemo]_vars

\* ================================================================ claims

\* The threads that hold a guard on mutex m.
Holders(m) == {t \in Threads : Holds(t, m)}

\* Thread t is inside a lock call on a mutex that thread u holds.
WaitsFor(t, u) == waiting[t] # NoCall /\ Holds(u, waiting[t].m)

\* A nonempty set of threads, each inside an acquire on a mutex that another
\* thread of the set holds.
CircularWait ==
  \E S \in SUBSET Threads :
    /\ S # {}
    /\ \A t \in S : \E u \in S \ {t} : WaitsFor(t, u)

\* C1: deadlock freedom. No reachable state contains a circular wait: a
\* nonempty set of threads each blocked in an acquire on a mutex that another
\* thread of the set holds.
DeadlockFreedom == ~CircularWait

\* C2: single issuance. On every thread the first call of get succeeds and
\* takes the token out of the issuer for good; every later call on that
\* thread panics, whatever became of the token and whatever other threads
\* have claimed.
SingleIssuance ==
  \A t \in Threads :
    /\ getCalls[t] = 0 => issuer[t]
    /\ getCalls[t] >= 1 => ~issuer[t]
    /\ getCalls[t] = 1 => status[t] # "panicked"
    /\ getCalls[t] >= 2 => status[t] = "panicked"

\* A thread has panicked in its second get while another thread, which
\* claimed its own token once, runs on.
SecondGetPanicked ==
  \E t, u \in Threads :
    /\ t # u
    /\ getCalls[t] = 2 /\ status[t] = "panicked"
    /\ getCalls[u] = 1 /\ status[u] = "running"

\* ---------------------------------------------------------------- C3
\* Token x is tok itself or is wrapped inside the sequential token tok.
RECURSIVE Contains(_, _)
Contains(tok, x) ==
  IF tok = NoToken THEN FALSE
  ELSE IF tok = x THEN TRUE
  ELSE IF IsSequential(tok) THEN Contains(to_earlier(tok), x)
  ELSE FALSE

\* Some token that thread t owns (free, stored in a guard it holds, or moved
\* into the acquire it is inside) is or wraps the nested token of mutex m.
NestedOutstanding(t, m) ==
  \/ \E tok \in BagToSet(hand[t]) : Contains(tok, NestedOf(m))
  \/ \E g \in guards[t] : Contains(g.tok, NestedOf(m))
  \/ Contains(waiting[t].tok, NestedOf(m))

\* The step is a release call (not a drop) by t of its nested guard on m.
NestedReleased(t, m) ==
  /\ Guard(m, "nested", Required(m)) \in guards[t]
  /\ Guard(m, "nested", Required(m)) \notin guards'[t]
  /\ last'.t = t /\ last'.m = m
  /\ last'.op \in {"nested_unlock", "nested_unlock_for_sequential"}

\* C3: nested LIFO. No release operation of a thread releases mutex A,
\* acquired with lock_for_nested, and leaves the thread with A's nested token
\* outstanding.
NestedLIFO ==
  [][\A t \in Threads, m \in Mutexes :
       NestedReleased(t, m) => ~NestedOutstanding(t, m)']_vars

\* ---------------------------------------------------------------- C4
\* C4: concurrent independence. When every thread claims its own root token
\* and walks the same chain (nested or sequential) over the shared mutexes,
\* no thread panics, no circular wait arises, and every thread eventually
\* completes its walk.
WalksComplete ==
  /\ [](\A t \in Threads : status[t] # "panicked")
  /\ [](~CircularWait)
  /\ <>[](\A t \in Threads : Done(t) /\ status[t] = "exited")

\* Every thread has completed its walk and all locks are free again.
AllWalksDone ==
  /\ \A t \in Threads : Done(t) /\ status[t] = "exited"
  /\ \A m \in Mutexes : ~locked[m]

\* ---------------------------------------------------------------- C5
\* The number of outer tokens inside a token value: a sequential token
\* holds the value of its predecessor, a nested token holds none.
RECURSIVE Outers(_)
Outers(tok) ==
  IF tok = NoToken THEN 0
  ELSE IF tok = Outer THEN 1
  ELSE IF IsSequential(tok) THEN Outers(to_earlier(tok))
  ELSE 0

RECURSIVE SumOver(_, _)
SumOver(S, f) ==
  IF S = {} THEN 0
  ELSE LET x == CHOOSE y \in S : TRUE IN f[x] + SumOver(S \ {x}, f)

\* The outer tokens of thread t in existence: in its issuer, free in its
\* hand, stored in its guards, moved into the acquire it is inside.
OuterCount(t) ==
  (IF issuer[t] THEN 1 ELSE 0)
    + SumOver(BagToSet(hand[t]),
              [tok \in BagToSet(hand[t]) |-> hand[t][tok] * Outers(tok)])
    + SumOver(guards[t], [g \in guards[t] |-> Outers(g.tok)])
    + Outers(waiting[t].tok)

\* C5: one outer token per thread. Each thread has at most one outer token
\* in existence, and holds at most one mutex whose required token is the
\* outer token.
OneOuterPerThread ==
  \A t \in Threads :
    /\ OuterCount(t) <= 1
    /\ Cardinality({g \in guards[t] : Required(g.m) = Outer}) <= 1

\* A thread's outer token is stored in a guard it holds, and another
\* thread's is wrapped in a free sequential token.
OuterStoredAndWrapped ==
  \E t, u \in Threads :
    /\ \E g \in guards[t] : g.tok = Outer
    /\ \E tok \in BagToSet(hand[u]) : IsSequential(tok) /\ Outers(tok) = 1

\* ---------------------------------------------------------------- C6
\* C6: token round trip. When unlock() on a guard of mutex M returns, the
\* token returned has M's required type (the type of the token lock was
\* given), it is free in the caller's hand, M is unlocked, and the caller
\* can at once lock M, or any other created mutex that requires that type.
TokenRoundTrip ==
  last.op = "unlock" =>
    /\ last.ret = Required(last.m)
    /\ Has(last.t, last.ret)
    /\ ~locked[last.m]
    /\ Holders(last.m) = {}
    /\ \A m \in created :
         Required(m) = Required(last.m) => ENABLED lock(last.t, m)

\* unlock() has just returned the outer token from a guard of excl1, and
\* excl2 requires the same type.
RoundTripDone ==
  /\ last.op = "unlock" /\ last.m = "excl1"
  /\ last.ret = Outer
  /\ "excl2" \in created

\* ---------------------------------------------------------------- C7
\* C7: sequential chaining. When unlock_for_sequential returns from a plain
\* guard of a mutex A that requires the outer token, the token returned is
\* Sequential<Outer, A>: of the declared mutexes it is accepted by those
\* declared next after A in a sequence and by no other; from ip_layer it is
\* accepted by device_layer and not by ip_layer, transport_layer or data2.
SequentialChaining ==
  (last.op = "unlock_for_sequential" /\ Required(last.m) = Outer) =>
    /\ last.ret = <<"Seq", <<"Outer">>, Identity(last.m)>>
    /\ Has(last.t, last.ret)
    /\ ~Accepts(last.m, last.ret)
    /\ \A m \in Mutexes :
         Accepts(m, last.ret) <=>
           \/ last.m = "ip_layer" /\ m = "device_layer"
           \/ last.m = "data1" /\ m = "data2"
    /\ last.m = "ip_layer" =>
         /\ ENABLED lock(last.t, "device_layer")
         /\ ~ENABLED lock(last.t, "ip_layer")
         /\ ~ENABLED lock(last.t, "transport_layer")

\* unlock_for_sequential has just returned from a guard of ip_layer.
SequentialTokenMade ==
  last.op = "unlock_for_sequential" /\ last.m = "ip_layer"

\* ---------------------------------------------------------------- C8
\* A thread panics in this step while it holds a guard of mutex m.
PanicsHolding(t, m) ==
  status[t] = "running" /\ status'[t] = "panicked" /\ Holds(t, m)

\* C8: poisoning is reported. A panic of a thread that holds a guard of M
\* poisons M, and no operation clears the poison; an acquire on a poisoned M
\* returns the poisoning error with the raw guard, so no plain or nested
\* guard of a poisoned mutex exists; and M is not left locked by the
\* panicked thread: an acquire on M waits only while a running thread holds
\* M's lock.
PoisoningReported ==
  /\ [](\A m \in Mutexes :
          /\ poisoned[m] =>
               \A t \in Threads : \A g \in guards[t] : g.m = m => g.kind = "raw"
          /\ locked[m] => \E t \in Holders(m) : status[t] = "running"
          /\ \A t \in Threads :
               (waiting[t].m = m /\ Holders(m) = {}) => ENABLED lock_return(t))
  /\ [][\A m \in Mutexes :
          /\ poisoned[m] => poisoned'[m]
          /\ \A t \in Threads : PanicsHolding(t, m) => poisoned'[m]
          /\ \A t \in Threads :
               (waiting[t].m = m /\ waiting'[t] = NoCall /\ poisoned[m]) =>
                 /\ Guard(m, "raw", NoToken) \in guards'[t]
                 /\ last' = Call(t, "poison_error", m, NoToken)]_vars

\* An acquire on a mutex poisoned by a panicked holder has just returned
\* the poisoning error.
PoisonErrorReturned ==
  /\ last.op = "poison_error"
  /\ poisoned[last.m]
  /\ \E t \in Threads : status[t] = "panicked"
  /\ Guard(last.m, "raw", NoToken) \in guards[last.t]

\* ---------------------------------------------------------------- C9
\* Thread t still has authorization: its issuer is unclaimed, it owns a free
\* token, or it holds a guard whose release returns one.
HasAuthorization(t) ==
  /\ status[t] = "running"
  /\ \/ issuer[t]
     \/ hand[t] # EmptyBag
     \/ \E g \in guards[t] : g.kind # "raw"

\* C9: poisoning is recoverable. Right after an acquire returned the
\* poisoning error, the calling thread still has authorization to go on with
\* the protocol.
PoisoningRecoverable ==
  last.op = "poison_error" => HasAuthorization(last.t)

\* ---------------------------------------------------------------- C10
\* The guards on mutex m that are alive, each with its owner.
LiveGuards(m) ==
  UNION {{<<t, g>> : g \in {h \in guards[t] : h.m = m}} : t \in Threads}

\* C10: mutual exclusion. Each mutex has at most one live guard (plain,
\* nested or raw) over all threads, and is locked exactly when it has one; an
\* acquire returns only from a state in which no guard of the mutex is
\* alive; and a protected value changes only while a thread holds the guard.
MutualExclusion ==
  /\ [](\A m \in Mutexes :
          /\ Cardinality(LiveGuards(m)) <= 1
          /\ locked[m] <=> LiveGuards(m) # {})
  /\ [][\A m \in Mutexes :
          /\ \A t \in Threads :
               (waiting[t].m = m /\ waiting'[t] = NoCall) => LiveGuards(m) = {}
          /\ value'[m] # value[m] =>
               \E t \in Threads : Holds(t, m) /\ (\E g \in guards'[t] : g.m = m)]_vars

\* One thread waits inside an acquire on a mutex that another thread holds
\* and has written to.
BlockedOnHolder ==
  \E t, u \in Threads :
    /\ t # u
    /\ waiting[t].m = "excl1"
    /\ Holds(u, "excl1")
    /\ value["excl1"] = 42

\* ---------------------------------------------------------------- C11
\* C11: in demo_exclusive_mutexes the spawned thread writes 42 to the first
\* mutex and 84 to the second and leaves both unlocked and unpoisoned when
\* it ends, although it never unlocks the second one explicitly; the main
\* thread, once it has joined the thread and claimed its own root token,
\* never finds a lock taken when it acquires, and reads 42 under the guard of
\* the first mutex and 84 under the guard of the second.
ExclusiveScenario ==
  created = ExclusiveMutexes =>
    /\ status[Worker] # "panicked"
    /\ status[Worker] = "exited" =>
         /\ value["excl1"] = 42 /\ value["excl2"] = 84
         /\ \A m \in created : ~poisoned[m] /\ (locked[m] => Holds(Main, m))
         /\ guards[Worker] = {}
    /\ pc[Main] > 0 => status[Worker] = "exited"
    /\ waiting[Main] # NoCall => InnerFree(waiting[Main].m)
    /\ DemoAt(Main).op = "read" =>
         /\ Holds(Main, DemoAt(Main).m)
         /\ value[DemoAt(Main).m] = (IF DemoAt(Main).m = "excl1" THEN 42 ELSE 84)
    /\ (getCalls[Main] = 1 /\ pc[Main] >= 2) => status[Main] = "running"

\* The main thread has read both values and holds the guard of the second
\* mutex at the end of the demo.
ExclusiveDemoCompleted ==
  /\ created = ExclusiveMutexes
  /\ DemoAt(Main).op = "return"
  /\ Holds(Main, "excl2")
  /\ value["excl1"] = 42 /\ value["excl2"] = 84
  /\ status[Worker] = "exited"

\* ---------------------------------------------------------------- C12
\* What a thread possesses: its free tokens, its guards, and the token inside
\* the acquire it is waiting in.
Possessions(t) == <<hand[t], guards[t], waiting[t]>>

PossessesSomething(t) ==
  HandSize(t) > 0 \/ guards[t] # {} \/ waiting[t] # NoCall

\* No step changes the possessions of two threads: nothing goes from one
\* thread to another.
NothingMoves ==
  \A t, u \in Threads :
    (t # u /\ Possessions(t)' # Possessions(t)) => Possessions(u)' = Possessions(u)

\* C12: OuterMutexPermission::get is the sole entry point. A thread that holds
\* any token or guard has called get before and its issuer is claimed; a
\* thread whose issuer is still available holds no token and no guard; and
\* tokens and guards never move from one thread to another.
SoleEntryPoint ==
  /\ [](\A t \in Threads :
          /\ PossessesSomething(t) => (getCalls[t] >= 1 /\ ~issuer[t])
          /\ issuer[t] => ~PossessesSomething(t))
  /\ [][NothingMoves]_vars

\* One thread holds a guard and a free token after claiming its root token
\* while another thread, which has not called get, holds nothing.
HolderBesideUnclaimed ==
  \E t, u \in Threads :
    /\ guards[t] # {} /\ HandSize(t) > 0 /\ getCalls[t] = 1 /\ ~issuer[t]
    /\ issuer[u] /\ getCalls[u] = 0 /\ ~PossessesSomething(u)

\* ---------------------------------------------------------------- C13
\* C13: single chain of custody. Every thread has at most one free token (a
\* token it could present to an acquire) at any time.
SingleCustody == \A t \in Threads : HandSize(t) <= 1

\* ---------------------------------------------------------------- C14
\* C14: no self-deadlock. No thread is inside lock or lock_for_nested on a
\* mutex whose guard it still holds.
NoSelfDeadlock ==
  \A t \in Threads : waiting[t] # NoCall => ~Holds(t, waiting[t].m)

\* ---------------------------------------------------------------- C15
\* C15: the demos are repeatable. Whatever sequence of menu selections the
\* process reads, the main thread never panics: OuterMutexPermission::get on
\* the main thread succeeds in every demo, also in one selected after an
\* earlier demo has run.
RepeatableDemos == status[Main] # "panicked"

\* ---------------------------------------------------------------- C16
\* An unlock_for_sequential followed at once by to_earlier on the same
\* thread: the token that comes out is the one the guard stored (what unlock
\* would have returned), it is in the thread's hand, and the mutex is free.
UnwrapStep ==
  (last.op = "unlock_for_sequential" /\ last'.op = "to_earlier" /\ last'.t = last.t)
    => /\ last'.ret = Required(last.m)
       /\ BagIn(Required(last.m), hand'[last.t])
       /\ ~IsSequential(Required(last.m)) => BagCardinality(hand'[last.t]) = 1
       /\ ~locked'[last.m]

\* C16: for a guard obtained by lock, unlock_for_sequential followed by
\* to_earlier yields the token unlock would have returned, with the mutex
\* released, so the thread may acquire that mutex again; and a thread that
\* uses only lock, unlock, unlock_for_sequential and to_earlier holds at most
\* one mutex at any time, and no free token while it holds one.
SequentialUnwrap ==
  /\ [](/\ last.op = "unlock_for_sequential" =>
             /\ last.ret = SequentialNew(Required(last.m), Identity(last.m))
             /\ to_earlier(last.ret) = Required(last.m)
             /\ Has(last.t, last.ret)
             /\ ~locked[last.m]
             /\ ENABLED ToEarlier(last.t, last.ret)
        /\ last.op = "to_earlier" =>
             /\ Has(last.t, last.ret)
             /\ \A m \in created :
                  Accepts(m, last.ret) => ENABLED lock(last.t, m)
        /\ \A t \in Threads :
             /\ Cardinality(guards[t]) <= 1
             /\ guards[t] # {} => (HandSize(t) = 0 /\ waiting[t] = NoCall))
  /\ [][UnwrapStep]_vars

\* A thread has unwrapped a sequential token back to the outer token, which
\* lets it acquire the first mutex of the chain again, while the other thread
\* holds a later mutex of the chain.
UnwrappedToOuter ==
  /\ last.op = "to_earlier"
  /\ last.ret = Outer
  /\ Has(last.t, Outer)
  /\ ENABLED lock(last.t, "ip_layer")
  /\ \E u \in Threads : u # last.t /\ Holds(u, "device_layer")

====
